---------------------------- MODULE Spec2Model ----------------------------
(***************************************************************************)
(* A model of omega.js (src/omega.js): the DOM-ready signal, the ancestor  *)
(* search, the defaults merge, the request helper and the fragment         *)
(* construction.  Each part has its own specification over its own         *)
(* variables; the variables of the other parts stay at their idle values.  *)
(***************************************************************************)
EXTENDS Integers, Sequences, FiniteSets, TLC

\* the DOM-ready signal (omega.js:31-62)
VARIABLES domIsReady,          \* _domIsReady
          domReadyCallbacks,   \* _domReadyCallbacks: [defined, list]
          listening,           \* _onDomReadyHandler is a DOMContentLoaded listener
          dclFired,            \* the document has dispatched DOMContentLoaded
          timers,              \* callbacks handed to setTimeout(.., 0), in order
          registered,          \* what each onDomReady call was given, in call order
          invoked,             \* log of callback invocations
          syncInvoked,         \* callbacks invoked inside their own onDomReady call
          handlerRuns          \* number of runs of _onDomReadyHandler

readyVars == <<domIsReady, domReadyCallbacks, listening, dclFired, timers,
               registered, invoked, syncInvoked, handlerRuns>>

\* the ancestor search (omega.js:24-28, 115-130)
VARIABLES bodyRef,        \* _body, as captured when the module was loaded
          tags,           \* tag name of each element below head, body, or detached
          pNode,          \* argument node
          pSelector,      \* argument selector ("" when missing)
          pIncludeSelf,   \* argument includeSelf
          pResult         \* outcome of the call

parentVars == <<bodyRef, tags, pNode, pSelector, pIncludeSelf, pResult>>

\* the defaults merge (omega.js:343-354)
VARIABLES dHeap,       \* the objects, by reference
          dHeap0,      \* the objects as they were before the call
          dObj,        \* argument obj: a reference, or NoRef when falsy
          dDefaults,   \* argument defaults: a reference
          dRet         \* the returned reference, NoRef before the call returns

defaultsVars == <<dHeap, dHeap0, dObj, dDefaults, dRet>>

\* the request helper (omega.js:372-408)
VARIABLES requests     \* the XMLHttpRequest objects created so far, by handle

xhrVars == <<requests>>

\* the fragment construction (omega.js:197-243)
VARIABLES fHeap,       \* the DOM nodes, by reference
          fHeap0,      \* the DOM nodes as they were before the call
          fContent,    \* argument content
          fCloneEls,   \* argument cloneEls
          fOut         \* what the call produced, NoOut before it returns

fragVars == <<fHeap, fHeap0, fContent, fCloneEls, fOut>>

vars == <<readyVars, parentVars, defaultsVars, xhrVars, fragVars>>
exceptReady == <<parentVars, defaultsVars, xhrVars, fragVars>>
exceptParent == <<readyVars, defaultsVars, xhrVars, fragVars>>
exceptDefaults == <<readyVars, parentVars, xhrVars, fragVars>>
exceptXhr == <<readyVars, parentVars, defaultsVars, fragVars>>
exceptFrag == <<readyVars, parentVars, defaultsVars, xhrVars>>

\* ---- the DOM-ready signal (omega.js:31-62)

\* Bound on the number of onDomReady calls in a run.
MaxCallbacks == 4

\* What a callback does when it is invoked: returns, throws, or calls
\* onDomReady itself with a further (returning) callback.
Behaviours == {"plain", "throws", "registers"}

\* The ready state as one record, threaded through the code's steps.
ReadyState ==
    [ready |-> domIsReady, queue |-> domReadyCallbacks, timers |-> timers,
     registered |-> registered, invoked |-> invoked, sync |-> syncInvoked]

\* _onDomReady(callback): the callback is the next one in call order.
OnDomReady(s, beh) ==
    LET cb == Len(s.registered) + 1
        s1 == [s EXCEPT !.registered = Append(@, beh)]
    IN  IF ~s1.ready
        THEN [s1 EXCEPT !.queue.list = Append(@, cb)]
        ELSE [s1 EXCEPT !.timers = Append(@, cb)]

\* callback(): the invocation is logged with the flag it ran under; a
\* "registers" callback calls onDomReady from inside.
Invoke(s, cb) ==
    LET s1 == [s EXCEPT !.invoked = Append(@, [cb |-> cb, ready |-> s.ready])]
    IN  IF s.registered[cb] = "registers" /\ Len(s.registered) < MaxCallbacks
        THEN OnDomReady(s1, "plain")
        ELSE s1

Throws(s, cb) == s.registered[cb] = "throws"

\* The loop of _onDomReadyHandler from index c on: a throwing callback ends
\* the handler there, before the queue is discarded.
RECURSIVE HandlerLoop(_, _)
HandlerLoop(s, c) ==
    IF c > Len(s.queue.list)
    THEN [s EXCEPT !.queue = [defined |-> FALSE, list |-> <<>>]]
    ELSE IF Throws(s, s.queue.list[c])
         THEN Invoke(s, s.queue.list[c])
         ELSE HandlerLoop(Invoke(s, s.queue.list[c]), c + 1)

\* _onDomReadyHandler without its first statement, _domIsReady = true
OnDomReadyHandlerFlagUnset(s) == HandlerLoop(s, 1)

\* _onDomReadyHandler()
OnDomReadyHandler(s) == HandlerLoop([s EXCEPT !.ready = TRUE], 1)

SetReady(s) ==
    /\ domIsReady' = s.ready
    /\ domReadyCallbacks' = s.queue
    /\ timers' = s.timers
    /\ registered' = s.registered
    /\ invoked' = s.invoked
    /\ syncInvoked' = s.sync

\* A script calls onDomReady(callback).
Register ==
    /\ Len(registered) < MaxCallbacks
    /\ \E beh \in Behaviours : SetReady(OnDomReady(ReadyState, beh))
    /\ UNCHANGED <<listening, dclFired, handlerRuns>>
    /\ UNCHANGED exceptReady

\* The document dispatches its one DOMContentLoaded event to the listener.
DomContentLoaded ==
    /\ ~dclFired
    /\ listening
    /\ dclFired' = TRUE
    /\ listening' = FALSE
    /\ handlerRuns' = handlerRuns + 1
    /\ SetReady(OnDomReadyHandler(ReadyState))
    /\ UNCHANGED exceptReady

\* The event is dispatched while nothing listens (the module was loaded
\* with readyState "interactive").
DomContentLoadedUnheard ==
    /\ ~dclFired
    /\ ~listening
    /\ dclFired' = TRUE
    /\ UNCHANGED <<domIsReady, domReadyCallbacks, listening, timers,
                   registered, invoked, syncInvoked, handlerRuns>>
    /\ UNCHANGED exceptReady

\* The oldest setTimeout(callback, 0) task runs.
TimerFire ==
    /\ timers # <<>>
    /\ SetReady(Invoke([ReadyState EXCEPT !.timers = Tail(@)], Head(timers)))
    /\ UNCHANGED <<listening, dclFired, handlerRuns>>
    /\ UNCHANGED exceptReady

Next == Register \/ DomContentLoaded \/ DomContentLoadedUnheard \/ TimerFire

\* ---- the ancestor search (omega.js:24-28, 115-130)

\* Bound on the depth of the element chains below head, below body and in
\* the detached subtree.
MaxDepth == 2

N(root, depth) == [root |-> root, depth |-> depth]
Win == N("window", 0)
Doc == N("document", 0)
Html == N("html", 0)
HeadEl == N("head", 0)
BodyEl == N("body", 0)
NoNode == N("none", 0)          \* null or undefined

ChainRoots == {"body", "head", "detached"}
ChainNodes == {N(r, d) : r \in ChainRoots, d \in 1..MaxDepth}
Nodes == {Win, Doc, Html, HeadEl, BodyEl, NoNode} \cup ChainNodes
ChainTags == {"div", "span"}
Selectors == {"", "div", "span", "body", "html"}

\* node.parentNode in the document tree
ParentNode(n) ==
    IF n.depth > 1 THEN N(n.root, n.depth - 1)
    ELSE IF n.depth = 1
         THEN (IF n.root = "detached" THEN NoNode ELSE N(n.root, 0))
    ELSE IF n \in {HeadEl, BodyEl} THEN Html
    ELSE IF n = Html THEN Doc
    ELSE NoNode

\* Only elements have a matches method; document has none.
HasMatches(n) == n \notin {Win, Doc, NoNode}

TagOf(n) == IF n \in ChainNodes THEN tags[n] ELSE n.root

\* p.matches(selector) for a type selector
Matches(n, selector) == TagOf(n) = selector

ErrMissing == "node and selector must be given"
ErrInvalid == "invalid choice of node"
ErrType == "TypeError: p.matches is not a function"

Throw(err, visited) ==
    [kind |-> "throw", err |-> err, val |-> NoNode, visited |-> visited]
Return(val, visited) ==
    [kind |-> "return", err |-> "", val |-> val, visited |-> visited]
NoResult == [kind |-> "none", err |-> "", val |-> NoNode, visited |-> <<>>]

\* The while loop of _parent; visited lists the nodes matches was called on.
RECURSIVE Walk(_, _, _)
Walk(p, selector, visited) ==
    IF p = NoNode \/ p = bodyRef THEN Return(NoNode, visited)
    ELSE IF ~HasMatches(p) THEN Throw(ErrType, Append(visited, p))
    ELSE IF Matches(p, selector) THEN Return(p, Append(visited, p))
    ELSE Walk(ParentNode(p), selector, Append(visited, p))

\* _parent(node, selector, includeSelf)
Parent(node, selector, includeSelf) ==
    IF node = NoNode \/ selector = "" THEN Throw(ErrMissing, <<>>)
    ELSE IF node = Win \/ node = Doc \/ node = Html \/ node = bodyRef
         THEN Throw(ErrInvalid, <<>>)
    ELSE Walk(IF includeSelf THEN node ELSE ParentNode(node), selector, <<>>)

\* A script calls parent(node, selector, includeSelf).
CallParent ==
    /\ pResult = NoResult
    /\ pResult' = Parent(pNode, pSelector, pIncludeSelf)
    /\ UNCHANGED <<bodyRef, tags, pNode, pSelector, pIncludeSelf>>
    /\ UNCHANGED exceptParent

NextParent == CallParent

\* ---- the defaults merge (omega.js:343-354)

\* Bound on the number of distinct property names.
MaxKeys == 2

Keys == 1..MaxKeys
Absent == "absent"
Vals == {"u", "v"}
NoRef == 0

\* An object: its own enumerable properties and the ones it inherits.
PropMaps == [Keys -> Vals \cup {Absent}]
Objects == [own : PropMaps, proto : PropMaps]

\* {}: no own property; Object.prototype supplies the first name.
EmptyObject ==
    [own |-> [k \in Keys |-> Absent],
     proto |-> [k \in Keys |-> IF k = 1 THEN "u" ELSE Absent]]

\* The commented-out test of the callback: obj.hasOwnProperty(key)
HasOwnProperty(key, o) == o.own[key] # Absent

\* key in obj
In(key, o) == o.own[key] # Absent \/ o.proto[key] # Absent

\* obj[key]
Get(o, key) == IF o.own[key] # Absent THEN o.own[key] ELSE o.proto[key]

\* Object.keys(o), in the order of the names
RECURSIVE KeysFrom(_, _)
KeysFrom(o, k) ==
    IF k > MaxKeys THEN <<>>
    ELSE (IF o.own[k] # Absent THEN <<k>> ELSE <<>>) \o KeysFrom(o, k + 1)
ObjectKeys(o) == KeysFrom(o, 1)

\* The forEach callback of _addDefaults, from the i-th key on.
RECURSIVE ForEachKey(_, _, _, _, _)
ForEachKey(h, obj, defaults, keys, i) ==
    IF i > Len(keys) THEN h
    ELSE LET key == keys[i]
             h1 == IF ~In(key, h[obj])
                   THEN [h EXCEPT ![obj].own[key] = h[defaults].own[key]]
                   ELSE h
         IN  ForEachKey(h1, obj, defaults, keys, i + 1)

\* _addDefaults(obj, defaults): the heap after the call and the reference
\* returned.
AddDefaults(h, obj, defaults) ==
    LET h1 == IF obj = NoRef THEN Append(h, EmptyObject) ELSE h
        o == IF obj = NoRef THEN Len(h1) ELSE obj
    IN  [heap |-> ForEachKey(h1, o, defaults, ObjectKeys(h1[defaults]), 1),
         ret |-> o]

\* A script calls addDefaults(obj, defaults).
CallAddDefaults ==
    /\ dRet = NoRef
    /\ LET r == AddDefaults(dHeap, dObj, dDefaults)
       IN  dHeap' = r.heap /\ dRet' = r.ret
    /\ UNCHANGED <<dHeap0, dObj, dDefaults>>
    /\ UNCHANGED exceptDefaults

NextDefaults == CallAddDefaults

\* ---- the request helper (omega.js:372-408)

\* Bound on the number of xhr calls in a run.
MaxRequests == 2
\* Bound on the number of properties of a body object.
MaxProps == 1

\* Strings are sequences of characters.
StringBodies == {<<>>, <<"a">>, <<"a", "b">>}
PropNames == <<"a", "b">>

\* A body object holds the first n property names, or only the second.
ObjectBodies ==
    {SubSeq(PropNames, 1, n) : n \in 0..MaxProps} \cup {<<PropNames[2]>>}

Body(type, str, props) == [type |-> type, str |-> str, props |-> props]
Bodies ==
    {Body("undefined", <<>>, <<>>), Body("null", <<>>, <<>>)}
    \cup {Body("string", s, <<>>) : s \in StringBodies}
    \cup {Body("object", <<>>, o) : o \in ObjectBodies}

\* _isNullOrUndefined(obj)
IsNullOrUndefined(body) == body.type \in {"null", "undefined"}

\* _isString(obj)
IsString(body) ==
    IF IsNullOrUndefined(body) THEN FALSE ELSE body.type = "string"

\* if(reqBodyObject): null, undefined and the empty string are falsy.
Truthy(body) ==
    /\ ~IsNullOrUndefined(body)
    /\ ~(body.type = "string" /\ body.str = <<>>)

\* JSON.stringify of an object whose properties all hold the number 1
RECURSIVE StringifyProps(_, _)
StringifyProps(props, i) ==
    IF i > Len(props) THEN <<>>
    ELSE (IF i > 1 THEN <<",">> ELSE <<>>)
         \o <<"\"", props[i], "\"", ":", "1">>
         \o StringifyProps(props, i + 1)
JsonStringify(body) == <<"{">> \o StringifyProps(body.props, 1) \o <<"}">>

\* One call made on the XMLHttpRequest object.
Call(op, hasArg, arg) == [op |-> op, hasArg |-> hasArg, arg |-> arg]
JsonHeader == <<"Content-Type", "application/json">>

\* The calls _xhr makes on req from open to send.
XhrCalls(method, url, body) ==
    <<Call("open", TRUE, <<method, url>>)>>
    \o (IF Truthy(body)
        THEN <<Call("setRequestHeader", TRUE, JsonHeader),
               IF IsString(body)
               THEN Call("send", TRUE, body.str)
               ELSE Call("send", TRUE, JsonStringify(body))>>
        ELSE <<Call("send", FALSE, <<>>)>>)

\* _xhr(method, url, reqBodyObject, onload, onerror): the request object,
\* whose handle is returned.
Xhr(handle, method, url, body, hasOnerror) ==
    [handle |-> handle, body |-> body, hasOnerror |-> hasOnerror,
     onload |-> TRUE, onerror |-> hasOnerror,
     calls |-> XhrCalls(method, url, body),
     returned |-> TRUE, state |-> "inflight", callbacks |-> <<>>]

\* req.onload: onload(req)
OnLoadEvent(r) ==
    [r EXCEPT !.state = "loaded",
              !.callbacks = IF r.onload
                            THEN Append(@, [name |-> "onload", arg |-> r.handle,
                                            returned |-> r.returned])
                            ELSE @]

\* req.onerror calling onload(req) in place of onerror(req)
OnErrorEventCallsOnload(r) ==
    [r EXCEPT !.state = "failed",
              !.callbacks = Append(@, [name |-> "onload", arg |-> r.handle,
                                       returned |-> r.returned])]

\* req.onerror, when set: onerror(req)
OnErrorEvent(r) ==
    [r EXCEPT !.state = "failed",
              !.callbacks = IF r.onerror
                            THEN Append(@, [name |-> "onerror", arg |-> r.handle,
                                            returned |-> r.returned])
                            ELSE @]

\* A script calls xhr(method, url, body, onload[, onerror]).
CallXhr ==
    /\ Len(requests) < MaxRequests
    /\ \E body \in Bodies, hasOnerror \in BOOLEAN :
          requests' = Append(requests,
                             Xhr(Len(requests) + 1, "POST", "/u", body, hasOnerror))
    /\ UNCHANGED exceptXhr

\* The browser fires the load event of an in-flight request.
RequestLoads ==
    /\ \E i \in 1..Len(requests) :
          /\ requests[i].state = "inflight"
          /\ requests' = [requests EXCEPT ![i] = OnLoadEvent(@)]
    /\ UNCHANGED exceptXhr

\* The browser fires the error event of an in-flight request.
RequestFails ==
    /\ \E i \in 1..Len(requests) :
          /\ requests[i].state = "inflight"
          /\ requests' = [requests EXCEPT ![i] = OnErrorEvent(@)]
    /\ UNCHANGED exceptXhr

NextXhr == CallXhr \/ RequestLoads \/ RequestFails

\* ---- the fragment construction (omega.js:197-243)

\* Bound on the number of tokens of a markup string.
MaxLen == 3

\* A node reference is an index into the heap; NoRef stands for null.
NodeRec(kind, data, kids, content) ==
    [kind |-> kind, data |-> data, kids |-> kids, content |-> content]

\* The document before the call: a host element holding an element with a
\* text child and two templates, one with two top-level content nodes and
\* one with a single one; a detached element; a detached empty template.
InitialDom ==
    << NodeRec("element",  <<"div">>,  <<2, 3, 6>>, NoRef),
       NodeRec("element",  <<"span">>, <<4>>,       NoRef),
       NodeRec("template", <<"template">>, <<>>,    5),
       NodeRec("text",     <<"t">>,    <<>>,        NoRef),
       NodeRec("fragment", <<>>,       <<7, 8>>,    NoRef),
       NodeRec("template", <<"template">>, <<>>,    9),
       NodeRec("element",  <<"li">>,   <<10>>,      NoRef),
       NodeRec("text",     <<"u">>,    <<>>,        NoRef),
       NodeRec("fragment", <<>>,       <<11>>,      NoRef),
       NodeRec("text",     <<"v">>,    <<>>,        NoRef),
       NodeRec("element",  <<"p">>,    <<>>,        NoRef),
       NodeRec("element",  <<"b">>,    <<>>,        NoRef),
       NodeRec("template", <<"template">>, <<>>,    14),
       NodeRec("fragment", <<>>,       <<>>,        NoRef) >>

Tokens == {"<span>", "</span>", "x"}
Markup == UNION {[1..n -> Tokens] : n \in 0..MaxLen}

Content(type, str, node) == [type |-> type, str |-> str, node |-> node]
Contents ==
    {Content("undefined", <<>>, NoRef)}
    \cup {Content("string", m, NoRef) : m \in Markup}
    \cup {Content("node", <<>>, n) : n \in 1..Len(InitialDom)}

\* !content: undefined, null and the empty string are falsy.
Falsy(content) ==
    \/ content.type = "undefined"
    \/ content.type = "string" /\ content.str = <<>>

\* _isString(content)
ContentIsString(content) == content.type = "string"

\* content instanceof HTMLTemplateElement
IsTemplate(h, content) ==
    content.type = "node" /\ h[content.node].kind = "template"

\* content instanceof Element
IsElement(h, content) ==
    content.type = "node" /\ h[content.node].kind \in {"element", "template"}

\* document.createDocumentFragment(), document.createElement(tag): the new
\* node is the last of the heap.
NewNode(h, kind, data) == Append(h, NodeRec(kind, data, <<>>, NoRef))
Last(h) == Len(h)

\* node.parentNode, NoRef when the node has no parent
ParentOf(h, n) ==
    IF \E p \in 1..Len(h) : \E i \in 1..Len(h[p].kids) : h[p].kids[i] = n
    THEN CHOOSE p \in 1..Len(h) : \E i \in 1..Len(h[p].kids) : h[p].kids[i] = n
    ELSE NoRef

\* The node taken out of its parent's child list.
Detach(h, n) ==
    [p \in 1..Len(h) |->
        [h[p] EXCEPT !.kids = SelectSeq(@, LAMBDA c : c # n)]]

\* parent.appendChild(child): a fragment gives up its children, any other
\* node leaves its previous parent.
AppendChild(h, parent, child) ==
    IF h[child].kind = "fragment"
    THEN [h EXCEPT ![parent].kids = @ \o h[child].kids,
                   ![child].kids = <<>>]
    ELSE [Detach(h, child) EXCEPT ![parent].kids = Append(@, child)]

\* The HTML parser on one token: a start tag opens an element under the
\* current node, an end tag closes the current element (and is ignored when
\* none is open), a character joins the text node before it or starts one.
ParseToken(ps, tok) ==
    LET h == ps.heap
        top == ps.stack[Len(ps.stack)]
        kids == h[top].kids
        new == Len(h) + 1
    IN  IF tok = "<span>"
        THEN [heap |-> [NewNode(h, "element", <<"span">>)
                          EXCEPT ![top].kids = Append(@, new)],
              stack |-> Append(ps.stack, new)]
        ELSE IF tok = "</span>"
        THEN [ps EXCEPT !.stack = IF Len(@) > 1
                                  THEN SubSeq(@, 1, Len(@) - 1)
                                  ELSE @]
        ELSE IF kids # <<>> /\ h[kids[Len(kids)]].kind = "text"
        THEN [ps EXCEPT !.heap[kids[Len(kids)]].data = Append(@, tok)]
        ELSE [ps EXCEPT !.heap = [NewNode(h, "text", <<tok>>)
                                    EXCEPT ![top].kids = Append(@, new)]]

RECURSIVE ParseFrom(_, _, _)
ParseFrom(ps, tokens, i) ==
    IF i > Len(tokens) THEN ps.heap
    ELSE ParseFrom(ParseToken(ps, tokens[i]), tokens, i + 1)

\* tmp.innerHTML = content, for a holder that has no children yet
SetInnerHtml(h, tmp, tokens) ==
    ParseFrom([heap |-> h, stack |-> <<tmp>>], tokens, 1)

\* tmp.lastChild taken in place of tmp.firstChild
LastChild(h, n) == h[n].kids[Len(h[n].kids)]

\* tmp.firstChild
FirstChild(h, n) == h[n].kids[1]

\* while((el = tmp.firstChild)) frag.appendChild(el)
RECURSIVE MoveAll(_, _, _)
MoveAll(h, tmp, frag) ==
    IF h[tmp].kids = <<>> THEN h
    ELSE MoveAll(AppendChild(h, frag, FirstChild(h, tmp)), tmp, frag)

\* node.cloneNode(false) in place of cloneNode(true): the copy has no
\* descendants.
CloneShallow(h, n) == NewNode(h, h[n].kind, h[n].data)

\* node.cloneNode(true): the copy is the first node added to the heap; its
\* descendants, and a template's content, are copied too.
RECURSIVE CloneNode(_, _), CloneKids(_, _, _, _)
CloneNode(h, n) ==
    LET id == Len(h) + 1
        h1 == CloneKids(NewNode(h, h[n].kind, h[n].data), id, h[n].kids, 1)
    IN  IF h[n].content = NoRef THEN h1
        ELSE [CloneNode(h1, h[n].content) EXCEPT ![id].content = Len(h1) + 1]

CloneKids(h, target, kids, i) ==
    IF i > Len(kids) THEN h
    ELSE CloneKids([CloneNode(h, kids[i])
                      EXCEPT ![target].kids = Append(@, Len(h) + 1)],
                   target, kids, i + 1)

Out(op, h, ret, frag, tmp, parsed) ==
    [op |-> op, heap |-> h, ret |-> ret, frag |-> frag, tmp |-> tmp,
     parsed |-> parsed]
NoOut == [op |-> "none", ret |-> NoRef, frag |-> NoRef, tmp |-> NoRef,
          parsed |-> <<>>]

\* _frag(content, cloneEls): the heap after the call, the fragment returned,
\* the temporary holder and the nodes the parse left in it.
Frag(h, content, cloneEls) ==
    LET h0 == NewNode(h, "fragment", <<>>)
        frag == Last(h0)
    IN  IF Falsy(content) THEN Out("frag", h0, frag, frag, NoRef, <<>>)
        ELSE IF ContentIsString(content)
        THEN LET h1 == NewNode(h0, "element", <<"div">>)
                 tmp == Last(h1)
                 h2 == SetInnerHtml(h1, tmp, content.str)
             IN  Out("frag", MoveAll(h2, tmp, frag), frag, frag, tmp,
                     h2[tmp].kids)
        ELSE IF IsTemplate(h0, content)
        THEN Out("frag",
                 AppendChild(CloneNode(h0, h0[content.node].content), frag,
                             Len(h0) + 1),
                 frag, frag, NoRef, <<>>)
        ELSE IF IsElement(h0, content)
        THEN IF cloneEls
             THEN Out("frag",
                      AppendChild(CloneNode(h0, content.node), frag,
                                  Len(h0) + 1),
                      frag, frag, NoRef, <<>>)
             ELSE Out("frag", AppendChild(h0, frag, content.node),
                      frag, frag, NoRef, <<>>)
        ELSE Out("frag", h0, frag, frag, NoRef, <<>>)

\* _parseOne with the test frag.childNodes.length >= 1
ParseOneAtLeast(h, content, cloneEls) ==
    LET r == Frag(h, content, cloneEls)
    IN  [r EXCEPT !.op = "parseOne",
                  !.ret = IF Len(r.heap[r.frag].kids) >= 1
                          THEN FirstChild(r.heap, r.frag)
                          ELSE r.frag]

\* _parseOne(content, cloneEls)
ParseOne(h, content, cloneEls) ==
    LET r == Frag(h, content, cloneEls)
    IN  [r EXCEPT !.op = "parseOne",
                  !.ret = IF Len(r.heap[r.frag].kids) = 1
                          THEN FirstChild(r.heap, r.frag)
                          ELSE r.frag]

SetOut(r) ==
    /\ fHeap' = r.heap
    /\ fOut' = [op |-> r.op, ret |-> r.ret, frag |-> r.frag, tmp |-> r.tmp,
                parsed |-> r.parsed]
    /\ UNCHANGED <<fHeap0, fContent, fCloneEls>>

\* A script calls frag(content, cloneEls).
CallFrag ==
    /\ fOut = NoOut
    /\ SetOut(Frag(fHeap, fContent, fCloneEls))
    /\ UNCHANGED exceptFrag

\* A script calls parseOne(content, cloneEls).
CallParseOne ==
    /\ fOut = NoOut
    /\ SetOut(ParseOne(fHeap, fContent, fCloneEls))
    /\ UNCHANGED exceptFrag

NextFrag == CallFrag \/ CallParseOne

\* ---- the specifications: one part runs, the others stay idle

\* Module load: the flag is read from document.readyState, and the listener
\* is added only when the document is still loading.
Init ==
    /\ domIsReady \in BOOLEAN
    /\ domReadyCallbacks = [defined |-> TRUE, list |-> <<>>]
    /\ listening = ~domIsReady
    /\ dclFired \in (IF domIsReady THEN BOOLEAN ELSE {FALSE})
    /\ timers = <<>>
    /\ registered = <<>>
    /\ invoked = <<>>
    /\ syncInvoked = {}
    /\ handlerRuns = 0
    /\ bodyRef = BodyEl
    /\ tags = <<>>
    /\ pNode = NoNode
    /\ pSelector = ""
    /\ pIncludeSelf = FALSE
    /\ pResult = NoResult
    /\ dDefaults = 1
    /\ dHeap = <<EmptyObject>>
    /\ dHeap0 = dHeap
    /\ dObj = NoRef
    /\ dRet = NoRef
    /\ requests = <<>>
    /\ fHeap = <<>>
    /\ fHeap0 = <<>>
    /\ fContent = Content("undefined", <<>>, NoRef)
    /\ fCloneEls = FALSE
    /\ fOut = NoOut

Spec == Init /\ [][Next]_vars

\* document.body is null while a script in <head> runs, so _body is either
\* the body element or null.
InitParent ==
    /\ domIsReady = TRUE
    /\ domReadyCallbacks = [defined |-> TRUE, list |-> <<>>]
    /\ listening = FALSE
    /\ dclFired = TRUE
    /\ timers = <<>>
    /\ registered = <<>>
    /\ invoked = <<>>
    /\ syncInvoked = {}
    /\ handlerRuns = 0
    /\ bodyRef \in {BodyEl, NoNode}
    /\ tags \in [ChainNodes -> ChainTags]
    /\ pNode \in Nodes
    /\ pSelector \in Selectors
    /\ pIncludeSelf \in BOOLEAN
    /\ pResult = NoResult
    /\ dDefaults = 1
    /\ dHeap = <<EmptyObject>>
    /\ dHeap0 = dHeap
    /\ dObj = NoRef
    /\ dRet = NoRef
    /\ requests = <<>>
    /\ fHeap = <<>>
    /\ fHeap0 = <<>>
    /\ fContent = Content("undefined", <<>>, NoRef)
    /\ fCloneEls = FALSE
    /\ fOut = NoOut

SpecParent == InitParent /\ [][NextParent]_vars

\* defaults is the first object; obj is falsy, the same object, or a second.
InitDefaults ==
    /\ domIsReady = TRUE
    /\ domReadyCallbacks = [defined |-> TRUE, list |-> <<>>]
    /\ listening = FALSE
    /\ dclFired = TRUE
    /\ timers = <<>>
    /\ registered = <<>>
    /\ invoked = <<>>
    /\ syncInvoked = {}
    /\ handlerRuns = 0
    /\ bodyRef = BodyEl
    /\ tags = <<>>
    /\ pNode = NoNode
    /\ pSelector = ""
    /\ pIncludeSelf = FALSE
    /\ pResult = NoResult
    /\ dDefaults = 1
    /\ \E d \in Objects :
          \/ dHeap = <<d>> /\ dObj \in {NoRef, 1}
          \/ \E o \in Objects : dHeap = <<d, o>> /\ dObj = 2
    /\ dHeap0 = dHeap
    /\ dRet = NoRef
    /\ requests = <<>>
    /\ fHeap = <<>>
    /\ fHeap0 = <<>>
    /\ fContent = Content("undefined", <<>>, NoRef)
    /\ fCloneEls = FALSE
    /\ fOut = NoOut

SpecDefaults == InitDefaults /\ [][NextDefaults]_vars

InitXhr ==
    /\ domIsReady = TRUE
    /\ domReadyCallbacks = [defined |-> TRUE, list |-> <<>>]
    /\ listening = FALSE
    /\ dclFired = TRUE
    /\ timers = <<>>
    /\ registered = <<>>
    /\ invoked = <<>>
    /\ syncInvoked = {}
    /\ handlerRuns = 0
    /\ bodyRef = BodyEl
    /\ tags = <<>>
    /\ pNode = NoNode
    /\ pSelector = ""
    /\ pIncludeSelf = FALSE
    /\ pResult = NoResult
    /\ dDefaults = 1
    /\ dHeap = <<EmptyObject>>
    /\ dHeap0 = dHeap
    /\ dObj = NoRef
    /\ dRet = NoRef
    /\ requests = <<>>
    /\ fHeap = <<>>
    /\ fHeap0 = <<>>
    /\ fContent = Content("undefined", <<>>, NoRef)
    /\ fCloneEls = FALSE
    /\ fOut = NoOut

SpecXhr == InitXhr /\ [][NextXhr]_vars

InitFrag ==
    /\ domIsReady = TRUE
    /\ domReadyCallbacks = [defined |-> TRUE, list |-> <<>>]
    /\ listening = FALSE
    /\ dclFired = TRUE
    /\ timers = <<>>
    /\ registered = <<>>
    /\ invoked = <<>>
    /\ syncInvoked = {}
    /\ handlerRuns = 0
    /\ bodyRef = BodyEl
    /\ tags = <<>>
    /\ pNode = NoNode
    /\ pSelector = ""
    /\ pIncludeSelf = FALSE
    /\ pResult = NoResult
    /\ dDefaults = 1
    /\ dHeap = <<EmptyObject>>
    /\ dHeap0 = dHeap
    /\ dObj = NoRef
    /\ dRet = NoRef
    /\ requests = <<>>
    /\ fHeap = InitialDom
    /\ fHeap0 = InitialDom
    /\ fContent \in Contents
    /\ fCloneEls \in BOOLEAN
    /\ fOut = NoOut

SpecFrag == InitFrag /\ [][NextFrag]_vars

\* ---- the claims about the DOM-ready signal

\* How often callback cb has been invoked.
Count(cb) == Cardinality({i \in 1..Len(invoked) : invoked[i].cb = cb})

\* Nothing is pending: the flag is set and no timer task is left.
ReadyQuiet == domIsReady /\ timers = <<>>

\* C1: every callback given to onDomReady is invoked exactly once, never
\* inside the onDomReady call that registered it, also when an earlier queued
\* callback throws or registers further callbacks: no callback is ever
\* invoked twice or synchronously, and once the flag is set and no timer
\* task is pending every registered callback has been invoked once.
C1_ExactlyOnceAsync ==
    /\ \A cb \in 1..Len(registered) : Count(cb) <= 1
    /\ syncInvoked = {}
    /\ ReadyQuiet => \A cb \in 1..Len(registered) : Count(cb) = 1

\* C2: callbacks fire in registration order and only after readiness: when
\* a callback is invoked the flag is true and every callback registered
\* before it has been invoked before it.
C2_RegistrationOrder ==
    /\ \A i \in 1..Len(invoked) : invoked[i].ready
    /\ \A i \in 1..Len(invoked) :
          \A a \in 1..(invoked[i].cb - 1) :
              \E j \in 1..(i - 1) : invoked[j].cb = a

\* The part of C2 the code keeps: the callbacks that are invoked are invoked
\* in registration order, under a true flag.
InvokedInOrder ==
    /\ \A i \in 1..Len(invoked) : invoked[i].ready
    /\ \A i, j \in 1..Len(invoked) : i < j => invoked[i].cb < invoked[j].cb

\* ---- the claims about the ancestor search

RootNodes == {Win, Doc, Html, BodyEl}
ArgsGiven == pNode # NoNode /\ pSelector # ""

\* C3: parent throws before any traversal when node or selector is missing,
\* throws when node is window, document, the html element or the body
\* element, and raises neither of the two errors for any other pair.
C3_ParentThrows ==
    pResult # NoResult =>
        /\ ~ArgsGiven => pResult = Throw(ErrMissing, <<>>)
        /\ ArgsGiven /\ pNode \in RootNodes => pResult.kind = "throw"
        /\ ArgsGiven /\ pNode \notin RootNodes =>
              pResult.err \notin {ErrMissing, ErrInvalid}

\* The nearest node matching the selector on the parent chain from p up to,
\* and not including, body and what lies above it; NoNode when there is none.
RECURSIVE Nearest(_, _)
Nearest(p, selector) ==
    IF p \in {NoNode, BodyEl, Html, Doc} THEN NoNode
    ELSE IF TagOf(p) = selector THEN p
    ELSE Nearest(ParentNode(p), selector)

\* C4: for every allowed starting node (under body, under head, detached)
\* parent returns the nearest match on the upward chain, from the node
\* itself when includeSelf is set and from its parent otherwise, never
\* considering body or anything above it, and returns undefined when nothing
\* matches before that boundary.
C4_NearestMatch ==
    pResult # NoResult /\ ArgsGiven /\ pNode \in ChainNodes \cup {HeadEl} =>
        /\ pResult.kind = "return"
        /\ pResult.val =
              Nearest(IF pIncludeSelf THEN pNode ELSE ParentNode(pNode), pSelector)
        /\ \A i \in 1..Len(pResult.visited) :
              pResult.visited[i] \notin {BodyEl, Html, Doc}

\* ---- the claims about the defaults merge

\* obj as it was when the call began ({} when a falsy obj was given), obj as
\* the call left it, and defaults as it was.
ObjBefore == IF dObj = NoRef THEN EmptyObject ELSE dHeap0[dObj]
ObjAfter == dHeap[dRet]
DefaultsBefore == dHeap0[dDefaults]

\* The name is a property of the object, own or inherited.
Present(k, o) == o.own[k] # Absent \/ o.proto[k] # Absent

\* C5: addDefaults never changes the value of a key already present on obj
\* (own or inherited); obj gains exactly the own enumerable keys of defaults
\* that were absent from it, each with the value from defaults; the result
\* is obj itself whenever obj was not falsy; defaults is left unchanged.
C5_DefaultsMerge ==
    dRet # NoRef =>
        /\ \A k \in Keys :
              Present(k, ObjBefore) =>
                  /\ ObjAfter.own[k] = ObjBefore.own[k]
                  /\ Get(ObjAfter, k) = Get(ObjBefore, k)
        /\ \A k \in Keys :
              ~Present(k, ObjBefore) =>
                  ObjAfter.own[k] = DefaultsBefore.own[k]
        /\ ObjAfter.proto = ObjBefore.proto
        /\ dObj # NoRef => dRet = dObj
        /\ dObj = NoRef => dRet = Len(dHeap0) + 1
        /\ dHeap[dDefaults] = DefaultsBefore

\* C5 witness: the call has returned; obj inherited a key that defaults
\* holds with another value, and obj gained a key it lacked.
C5_Witness ==
    /\ dRet # NoRef
    /\ dObj # NoRef
    /\ \E k \in Keys :
          /\ ObjBefore.own[k] = Absent
          /\ ObjBefore.proto[k] # Absent
          /\ DefaultsBefore.own[k] \notin {Absent, ObjBefore.proto[k]}
    /\ \E k \in Keys :
          ~Present(k, ObjBefore) /\ ObjAfter.own[k] # Absent

\* ---- the claims about the request helper

SendCall(r) == r.calls[Len(r.calls)]
Delivered(name, r) ==
    <<[name |-> name, arg |-> r.handle, returned |-> TRUE]>>

\* C6: for every body value xhr sends a plain object as its JSON string with
\* the JSON content-type header set before sending, a string (the empty
\* string included) verbatim as the request body, and no body when body is
\* undefined or null; exactly one send is issued per call, after open.
C6_BodySent ==
    \A i \in 1..Len(requests) :
        LET r == requests[i]
            n == Len(r.calls)
        IN  /\ r.calls[1].op = "open"
            /\ {j \in 1..n : r.calls[j].op = "send"} = {n}
            /\ r.body.type = "object" =>
                  /\ SendCall(r) = Call("send", TRUE, JsonStringify(r.body))
                  /\ \E j \in 1..(n - 1) :
                        r.calls[j] = Call("setRequestHeader", TRUE, JsonHeader)
            /\ r.body.type = "string" =>
                  SendCall(r) = Call("send", TRUE, r.body.str)
            /\ r.body.type \in {"undefined", "null"} =>
                  SendCall(r) = Call("send", FALSE, <<>>)

\* C7 as stated: the outcome of every request reaches one of the two
\* callbacks with the request handle, after xhr has returned, never both:
\* onload when it completes, and a callback also on error when onerror was
\* omitted.
C7_OutcomeDelivered ==
    \A i \in 1..Len(requests) :
        LET r == requests[i]
        IN  /\ r.state = "inflight" => r.callbacks = <<>>
            /\ r.state = "loaded" => r.callbacks = Delivered("onload", r)
            /\ r.state = "failed" =>
                  /\ Len(r.callbacks) = 1
                  /\ r.callbacks[1].arg = r.handle
                  /\ r.callbacks[1].returned
                  /\ r.hasOnerror => r.callbacks = Delivered("onerror", r)

\* C7 amended: a completed request reaches onload, a failed request reaches
\* onerror when onerror was given and no callback at all when it was
\* omitted; each callback gets the request handle, after xhr has returned,
\* and never both are invoked for one request.
C7_OutcomeDeliveredIfGiven ==
    \A i \in 1..Len(requests) :
        LET r == requests[i]
        IN  /\ r.state = "inflight" => r.callbacks = <<>>
            /\ r.state = "loaded" => r.callbacks = Delivered("onload", r)
            /\ r.state = "failed" /\ r.hasOnerror =>
                  r.callbacks = Delivered("onerror", r)
            /\ r.state = "failed" /\ ~r.hasOnerror => r.callbacks = <<>>

\* C7 witness: one request failed without an onerror argument and reached
\* no callback, another failed with one and reached it.
C7_Witness ==
    /\ \E i \in 1..Len(requests) :
          /\ requests[i].state = "failed"
          /\ ~requests[i].hasOnerror
          /\ requests[i].callbacks = <<>>
    /\ \E i \in 1..Len(requests) :
          /\ requests[i].state = "failed"
          /\ requests[i].hasOnerror
          /\ requests[i].callbacks = Delivered("onerror", requests[i])

\* ---- the claims about the fragment construction

FragKids == fHeap[fOut.frag].kids
IsNew(n) == n > Len(fHeap0)
OldNodesUnchanged == \A n \in 1..Len(fHeap0) : fHeap[n] = fHeap0[n]

\* The subtree below a node as a value: kind, data, the subtrees of its
\* children in order, and a template's content.
RECURSIVE TreeOf(_, _)
TreeOf(h, n) ==
    [kind |-> h[n].kind,
     data |-> h[n].data,
     kids |-> [i \in 1..Len(h[n].kids) |-> TreeOf(h, h[n].kids[i])],
     content |-> IF h[n].content = NoRef THEN <<>>
                 ELSE <<TreeOf(h, h[n].content)>>]

\* The number of top-level nodes of a markup string, counted on the tokens:
\* a start tag at depth 0 or a character at depth 0 that does not follow
\* another top-level character begins one.
RECURSIVE TopLevelFrom(_, _, _, _)
TopLevelFrom(tokens, i, depth, afterText) ==
    IF i > Len(tokens) THEN 0
    ELSE IF tokens[i] = "<span>"
         THEN (IF depth = 0 THEN 1 ELSE 0)
              + TopLevelFrom(tokens, i + 1, depth + 1, FALSE)
    ELSE IF tokens[i] = "</span>"
         THEN TopLevelFrom(tokens, i + 1, IF depth > 0 THEN depth - 1 ELSE 0,
                           afterText /\ depth = 0)
    ELSE (IF depth = 0 /\ ~afterText THEN 1 ELSE 0)
         + TopLevelFrom(tokens, i + 1, depth, depth = 0)
TopLevelCount(tokens) == TopLevelFrom(tokens, 1, 0, FALSE)

\* C8: frag(content) returns a new container that is empty when content is
\* absent and, when content is a string, holds exactly the top-level nodes
\* of the parsed markup, in order, none lost or duplicated, the temporary
\* holder ending up empty.
C8_FragFromString ==
    fOut.op = "frag" =>
        /\ IsNew(fOut.ret) /\ fOut.ret = fOut.frag
        /\ fHeap[fOut.frag].kind = "fragment"
        /\ Falsy(fContent) => FragKids = <<>>
        /\ ContentIsString(fContent) =>
              Len(FragKids) = TopLevelCount(fContent.str)
        /\ ContentIsString(fContent) /\ ~Falsy(fContent) =>
              /\ FragKids = fOut.parsed
              /\ \A i, j \in 1..Len(FragKids) :
                    i # j => FragKids[i] # FragKids[j]
              /\ \A i \in 1..Len(FragKids) :
                    ParentOf(fHeap, FragKids[i]) = fOut.frag
              /\ fHeap[fOut.tmp].kids = <<>>
              /\ OldNodesUnchanged

\* C8 witness: frag has returned for a string whose parse has at least two
\* top-level nodes, one of them with a child of its own.
C8_Witness ==
    /\ fOut.op = "frag"
    /\ ContentIsString(fContent)
    /\ Len(FragKids) >= 2
    /\ \E i \in 1..Len(FragKids) : fHeap[FragKids[i]].kids # <<>>

\* C9: parseOne returns the single top-level node itself whenever the
\* fragment built from content has exactly one child, and the fragment
\* container in every other case.
C9_ParseOne ==
    fOut.op = "parseOne" =>
        /\ Len(FragKids) = 1 =>
              /\ fOut.ret = FragKids[1]
              /\ fHeap[fOut.ret].kind # "fragment"
        /\ Len(FragKids) # 1 =>
              /\ fOut.ret = fOut.frag
              /\ fHeap[fOut.ret].kind = "fragment"
        /\ ContentIsString(fContent) =>
              (fOut.ret = fOut.frag <=> TopLevelCount(fContent.str) # 1)

\* C9 witness: parseOne has returned the only node parsed from a string.
C9_Witness ==
    /\ fOut.op = "parseOne"
    /\ ContentIsString(fContent)
    /\ Len(FragKids) = 1
    /\ fOut.ret # fOut.frag

\* C10: frag(element, cloneEls) for a plain element: with cloneEls false the
\* fragment's single child is the element itself, which has left its
\* previous parent; with cloneEls true it is a deep clone and the original
\* stays where it was, unchanged.  For a template the content is cloned
\* whatever cloneEls is, and the template and its content are unchanged.
C10_FragFromElement ==
    fOut.op = "frag" /\ fContent.type = "node" =>
        LET e == fContent.node
            kind == fHeap0[e].kind
            was == ParentOf(fHeap0, e)
            content == fHeap0[fHeap0[e].content].kids
        IN  /\ kind = "element" /\ ~fCloneEls =>
                  /\ FragKids = <<e>>
                  /\ ParentOf(fHeap, e) = fOut.frag
                  /\ \A p \in 1..Len(fHeap0) :
                        \A i \in 1..Len(fHeap[p].kids) : fHeap[p].kids[i] # e
                  /\ TreeOf(fHeap, e) = TreeOf(fHeap0, e)
                  /\ \A n \in 1..Len(fHeap0) : n # was => fHeap[n] = fHeap0[n]
            /\ kind = "element" /\ fCloneEls =>
                  /\ Len(FragKids) = 1
                  /\ IsNew(FragKids[1])
                  /\ TreeOf(fHeap, FragKids[1]) = TreeOf(fHeap0, e)
                  /\ OldNodesUnchanged
            /\ kind = "template" =>
                  /\ Len(FragKids) = Len(content)
                  /\ \A i \in 1..Len(FragKids) :
                        /\ IsNew(FragKids[i])
                        /\ TreeOf(fHeap, FragKids[i]) = TreeOf(fHeap0, content[i])
                  /\ OldNodesUnchanged

\* C10 witness: frag has adopted a plain element that had a parent and a
\* child of its own.
C10_Witness ==
    /\ fOut.op = "frag"
    /\ fContent.type = "node"
    /\ fHeap0[fContent.node].kind = "element"
    /\ fHeap0[fContent.node].kids # <<>>
    /\ ParentOf(fHeap0, fContent.node) # NoRef
    /\ ~fCloneEls
    /\ FragKids = <<fContent.node>>

\* ---- the implicit invariant of the readiness state

\* While the flag is false the queue is still a list; a discarded queue has
\* never been appended to; the handler has run at most once.
ReadyStateConsistent ==
    /\ ~domIsReady => domReadyCallbacks.defined
    /\ ~domReadyCallbacks.defined => domReadyCallbacks.list = <<>>
    /\ ~domReadyCallbacks.defined => handlerRuns = 1
    /\ handlerRuns <= 1

\* C11: in every reachable state a false ready flag goes with a queue that
\* is still a list (the queue is discarded only after the flag has become
\* true), the flag never returns from true to false, and the readiness
\* handler runs at most once; so no onDomReady call appends to a discarded
\* queue.
C11_ReadyInvariant ==
    /\ []ReadyStateConsistent
    /\ [][domIsReady => domIsReady']_vars
    /\ [][~domReadyCallbacks.defined => ~domReadyCallbacks'.defined]_vars

\* C11 witness: the handler has run and discarded the queue, and an
\* onDomReady call made after that went to a timer, not to the queue.
C11_Witness ==
    /\ handlerRuns = 1
    /\ domIsReady
    /\ ~domReadyCallbacks.defined
    /\ timers # <<>>
    /\ invoked # <<>>

=============================================================================
